---------------------------- MODULE Spec2Model ----------------------------
(***************************************************************************)
(* Model of the resilient upstream client of the Risk Scoring API:         *)
(* services/riskshield_client.py (CircuitBreaker, RiskShieldClient and the *)
(* tenacity retry decorator around RiskShieldClient.validate), of the Key  *)
(* Vault credential caches (core/secrets.py), of the route handler         *)
(* api/v1/routes.py with the exception handlers of main.py, and of the     *)
(* risk level classification of models/schemas.py.                         *)
(*                                                                         *)
(* There is one specification per part: Spec (the client), CredSpec (the   *)
(* credential caches), RouteSpec (the route handler) and ScoreSpec (the    *)
(* classification); each leaves the variables of the other parts alone.    *)
(*                                                                         *)
(* Time is counted in whole seconds.  The breaker stores the monotonic     *)
(* time of the last failure and only ever reads the difference             *)
(* time.monotonic() - _last_failure_time, compared with recovery_timeout;  *)
(* the model keeps that difference (field elapsed), saturated at           *)
(* recovery_timeout.  Coroutines run on one asyncio event loop: the code   *)
(* between two awaits is one atomic action.                                *)
(***************************************************************************)
EXTENDS Integers, Sequences, FiniteSets, TLC

VARIABLES
    cb,          \* RiskShieldClient._circuit_breaker (the CircuitBreaker fields)
    api_key,     \* RiskShieldClient._api_key: "None" or "key"
    call,        \* per caller: the validate() call it has in progress
    streak,      \* observer: failures recorded while CLOSED since the last recorded success
    opened,      \* observer: failures recorded since the breaker last became CLOSED
    probes,      \* observer: calls admitted since the breaker last became HALF_OPEN
    probeAge,    \* observer: seconds since the last failure recorded in HALF_OPEN
    kv,          \* the Key Vault caches: secrets._cache, the age of _api_key
    req,         \* per inbound request: where validate_applicant is, its response
    uuids,       \* the number of uuid.uuid4() values generated so far
    sample,      \* a score and an upstream level, and what was computed from them
    timed,       \* one validate() call of a caller that has a deadline
    legacy,      \* services/riskshield.py: its breaker and the calls of its client
    race         \* a breaker and, per attempt in flight, how it was admitted

vars == <<cb, api_key, call, streak, opened, probes, probeAge,
          kv, req, uuids, sample, timed, legacy, race>>

credVars == <<kv>>
routeVars == <<req, uuids>>
scoreVars == <<sample>>
timedVars == <<timed>>
legacyVars == <<legacy>>
raceVars == <<race>>

---------------------------------------------------------------------------
(* Bounds of the model *)

\* the concurrent request tasks that call validate()
Callers == {"t1", "t2"}

\* the caller whose call is observed in detail
Observed == "t1"

\* record_failure is not taken once the failure counter has reached this value
MaxFailures == 6

\* the inbound requests handled concurrently
Requests == {"r1", "r2"}

\* no request is received once this many uuids have been generated
MaxUuids == 4

\* the scores tried range from ScoreMargin below 0 to ScoreMargin above 100
ScoreMargin == 3
Scores == (0 - ScoreMargin)..(100 + ScoreMargin)

\* the scores of the upstream answers the route handler is run on
RouteScores == {0 - 1, 0, 29, 30, 72, 100, 101}

\* the values of "riskLevel" in an upstream answer ("UNKNOWN": absent)
UpstreamLevels == {"LOW", "MEDIUM", "HIGH", "CRITICAL", "UNKNOWN"}

(* Program constants *)

\* CircuitBreaker.__init__ defaults
failure_threshold == 5
recovery_timeout == 30
half_open_max_calls == 3

\* @retry(stop=stop_after_attempt(3), wait=wait_exponential(multiplier=1, min=1, max=10))
max_attempts == 3
wait_multiplier == 1
wait_min == 1
wait_max == 10

\* _last_failure_time is None
None == -1

\* secrets._CACHE_TTL, seconds
_CACHE_TTL == 300

\* Settings.riskshield_api_timeout, seconds: the timeout of the HTTP client
riskshield_api_timeout == 30

\* services/riskshield.py: the breaker trips after this many failures
_CIRCUIT_FAILURE_THRESHOLD == 5

\* services/riskshield.py: seconds before the breaker admits calls again
_CIRCUIT_RECOVERY_TIMEOUT == 60

\* the longest deadline of a caller, seconds
MaxDeadline == 3

---------------------------------------------------------------------------
(* CircuitBreaker *)

Min(a, b) == IF a < b THEN a ELSE b
Max(a, b) == IF a > b THEN a ELSE b

RECURSIVE Pow2(_)
Pow2(n) == IF n <= 0 THEN 1 ELSE 2 * Pow2(n - 1)

CircuitState == {"CLOSED", "OPEN", "HALF_OPEN"}

\* CircuitBreaker.__init__
CircuitBreaker ==
    [state |-> "CLOSED", failure_count |-> 0, elapsed |-> None, half_open_calls |-> 0]

\* CircuitBreaker.can_execute: the answer and the breaker after the check
can_execute(b) ==
    IF b.state = "CLOSED" THEN [ok |-> TRUE, cb |-> b]
    ELSE IF b.state = "OPEN" THEN
        IF b.elapsed = None
        THEN [ok |-> TRUE, cb |-> [b EXCEPT !.state = "HALF_OPEN"]]
        ELSE IF b.elapsed >= recovery_timeout
        THEN [ok |-> TRUE,
              cb |-> [b EXCEPT !.state = "HALF_OPEN", !.half_open_calls = 0]]
        ELSE [ok |-> FALSE, cb |-> b]
    ELSE IF b.half_open_calls < half_open_max_calls
    THEN [ok |-> TRUE, cb |-> [b EXCEPT !.half_open_calls = @ + 1]]
    ELSE [ok |-> FALSE, cb |-> b]

\* record_success that resets the failure counter and leaves the state
record_success_keeps_state(b) ==
    IF b.state = "HALF_OPEN"
    THEN [b EXCEPT !.failure_count = 0]
    ELSE b

\* record_success that closes the breaker and keeps the failure counter
record_success_keeps_count(b) ==
    IF b.state = "HALF_OPEN"
    THEN [b EXCEPT !.state = "CLOSED"]
    ELSE b

\* CircuitBreaker.record_success
record_success(b) ==
    IF b.state = "HALF_OPEN"
    THEN [b EXCEPT !.state = "CLOSED", !.failure_count = 0]
    ELSE b

\* record_failure that stamps the failure time only when the threshold trips
record_failure_stale_timer(b) ==
    LET n == b.failure_count + 1 IN
    [b EXCEPT !.failure_count = n,
              !.elapsed = IF b.state = "HALF_OPEN" THEN @ ELSE 0,
              !.state = IF b.state = "HALF_OPEN" THEN "OPEN"
                        ELSE IF n >= failure_threshold THEN "OPEN"
                        ELSE b.state]

\* CircuitBreaker.record_failure (time.monotonic() - _last_failure_time becomes 0)
record_failure(b) ==
    LET n == b.failure_count + 1 IN
    [b EXCEPT !.failure_count = n,
              !.elapsed = 0,
              !.state = IF b.state = "HALF_OPEN" THEN "OPEN"
                        ELSE IF n >= failure_threshold THEN "OPEN"
                        ELSE b.state]

---------------------------------------------------------------------------
(* The retry decorator of RiskShieldClient.validate *)

\* a retry condition on the base class RiskShieldError: every error is retried
retry_if_exception_type_base(kind) == kind # "ok"

\* retry_if_exception_type(RiskShieldServerError): the exception kinds retried
retry_if_exception_type(kind) == kind = "ServerError"

\* a stop condition that lets one attempt too many through
stop_after_attempt_late(n) == n > max_attempts

\* stop_after_attempt(3)
stop_after_attempt(n) == n >= max_attempts

\* a backoff whose exponent is the attempt number
wait_exponential_shifted(n) ==
    Max(Max(0, wait_min), Min(wait_multiplier * Pow2(n), wait_max))

\* wait_exponential(multiplier=1, min=1, max=10) after attempt number n
wait_exponential(n) ==
    Max(Max(0, wait_min), Min(wait_multiplier * Pow2(n - 1), wait_max))

---------------------------------------------------------------------------
(* RiskShieldClient.validate: one attempt *)

\* what the upstream (or the transport) answers to one POST
\* ("200bad": status 200 with a body that response.json() cannot parse)
Outcomes ==
    {"200", "200bad", "401", "429", "5xx", "4xx", "timeout", "request_error"}

\* response.status_code for each kind of answer (0: there is no response)
StatusCodes(outcome) ==
    CASE outcome \in {"200", "200bad"} -> {200}
      [] outcome = "401" -> {401}
      [] outcome = "429" -> {429}
      [] outcome = "5xx" -> {500, 503}
      [] outcome = "4xx" -> {400, 404}
      [] OTHER -> {0}

\* the exception an attempt raises for an outcome; "ok" when it returns a result
raised(outcome) ==
    CASE outcome = "200" -> "ok"
      [] outcome = "200bad" -> "Exception"
      [] outcome = "401" -> "AuthError"
      [] outcome = "429" -> "RateLimitError"
      [] outcome = "5xx" -> "ServerError"
      [] outcome = "4xx" -> "Error"
      [] outcome = "timeout" -> "TimeoutError"
      [] outcome = "request_error" -> "Error"
      [] outcome = "rejected" -> "ServerError"
      [] outcome = "no_key" -> "AuthError"

\* the status_code attribute of the exception raised for an outcome whose
\* response carried the code (0: nothing is raised)
status_code(outcome, code) ==
    CASE outcome \in {"200", "200bad"} -> 0
      [] outcome \in {"401", "no_key"} -> 401
      [] outcome = "429" -> 429
      [] outcome \in {"5xx", "4xx"} -> code
      [] outcome = "timeout" -> 408
      [] outcome \in {"request_error", "rejected"} -> 503

\* a client that records the breaker's own rejection as a failure
breaker_after_counting_rejection(b, outcome) ==
    CASE outcome \in {"200", "200bad"} -> record_success(b)
      [] outcome = "no_key" -> b
      [] OTHER -> record_failure(b)

\* the breaker after an attempt that ended with the outcome
breaker_after(b, outcome) ==
    CASE outcome \in {"200", "200bad"} -> record_success(b)
      [] outcome \in {"rejected", "no_key"} -> b
      [] OTHER -> record_failure(b)

IdleCall ==
    [pc |-> "idle", attempt |-> 0, timer |-> 0, result |-> "none",
     first |-> "none", last |-> "none", http |-> 0, recorded |-> 0,
     delays |-> <<>>, status |-> 0, code |-> 0]

\* tenacity without reraise: exhausted retries end in RetryError, which the
\* handler of line 341 turns into RiskShieldServerError("Max retries exceeded", 503)
after_attempt_wrapped(cl, n, outcome, code) ==
    LET kind == raised(outcome) IN
    IF kind = "ok"
    THEN [cl EXCEPT !.pc = "done", !.attempt = n, !.last = outcome,
                    !.result = "ok"]
    ELSE IF retry_if_exception_type(kind) /\ ~stop_after_attempt(n)
    THEN [cl EXCEPT !.pc = "sleep", !.attempt = n, !.last = outcome,
                    !.timer = wait_exponential(n),
                    !.delays = Append(@, wait_exponential(n))]
    ELSE IF retry_if_exception_type(kind)
    THEN [cl EXCEPT !.pc = "done", !.attempt = n, !.last = outcome,
                    !.result = "ServerError", !.status = 503]
    ELSE [cl EXCEPT !.pc = "done", !.attempt = n, !.last = outcome,
                    !.result = kind, !.status = status_code(outcome, code)]

\* tenacity after attempt number n of call cl ended with the outcome (code:
\* the status code of its response): return the result, sleep before the
\* next attempt, or re-raise the exception of this attempt (reraise=True)
after_attempt(cl, n, outcome, code) ==
    LET kind == raised(outcome) IN
    IF kind = "ok"
    THEN [cl EXCEPT !.pc = "done", !.attempt = n, !.last = outcome,
                    !.result = "ok"]
    ELSE IF retry_if_exception_type(kind) /\ ~stop_after_attempt(n)
    THEN [cl EXCEPT !.pc = "sleep", !.attempt = n, !.last = outcome,
                    !.timer = wait_exponential(n),
                    !.delays = Append(@, wait_exponential(n))]
    ELSE [cl EXCEPT !.pc = "done", !.attempt = n, !.last = outcome,
                    !.result = kind, !.status = status_code(outcome, code)]

---------------------------------------------------------------------------
(* Observers: they record what happened, the program does not read them *)

\* the step from breaker b to breaker b2 incremented the failure counter
failed(b, b2) == b2.failure_count = b.failure_count + 1

\* a step took the breaker from b to b2; outcome is what the step recorded
\* ("none": it only ran can_execute), admitted is can_execute's answer
ObserveBreaker(b, b2, outcome, admitted) ==
    /\ streak' = IF outcome \in {"200", "200bad"} \/ b2.state # "CLOSED" THEN 0
                 ELSE IF failed(b, b2) THEN streak + 1
                 ELSE streak
    /\ opened' = IF b2.state = "CLOSED" /\ b.state # "CLOSED" THEN 0
                 ELSE IF failed(b, b2) THEN opened + 1
                 ELSE opened
    /\ probes' = IF b2.state # "HALF_OPEN" THEN 0
                 ELSE IF ~admitted THEN probes
                 ELSE IF b.state = "HALF_OPEN" THEN probes + 1
                 ELSE 1
    /\ probeAge' = IF failed(b, b2) /\ b.state = "HALF_OPEN" THEN 0
                   ELSE IF admitted THEN None
                   ELSE probeAge

\* The per-call observations (first, last, http, recorded, delays, code, result) are kept
\* for the call of one caller; the calls of the other callers run the same
\* code and their finished calls return at once.
Track(c, cl) ==
    IF c = Observed THEN cl
    ELSE IF cl.pc = "done" THEN IdleCall
    ELSE [cl EXCEPT !.first = "none", !.last = "none", !.http = 0,
                    !.recorded = 0, !.delays = <<>>, !.code = 0]

---------------------------------------------------------------------------
(* State *)

TypeOK ==
    /\ cb.state \in CircuitState
    /\ cb.failure_count \in 0..(MaxFailures + 1)
    /\ cb.elapsed \in {None} \cup (0..recovery_timeout)
    /\ cb.half_open_calls \in 0..(half_open_max_calls + 1)
    /\ api_key \in {"None", "key"}
    /\ \A c \in Callers :
          /\ call[c].pc \in {"idle", "key", "http", "sleep", "done"}
          /\ call[c].attempt \in 0..(max_attempts + 1)
    /\ kv.age \in {None} \cup (0.._CACHE_TTL)
    /\ kv.expires_in \in {None} \cup (0.._CACHE_TTL)
    /\ uuids \in 0..MaxUuids
    /\ \A r \in Requests :
          /\ req[r].pc \in {"idle", "awaiting", "responded"}
          /\ req[r].correlation_id \in {None} \cup (1..MaxUuids)
    /\ sample.score \in Scores \cup {None - 1000}
    /\ sample.upstream \in UpstreamLevels \cup {"missing"}

\* secrets._cache is empty and no key is cached; nothing was requested yet
NoCache ==
    [expires_in |-> None, age |-> None,
     last |-> [fn |-> "none", contacted |-> FALSE, due |-> FALSE]]

\* no correlation id
NoId == None
NoScore == 0 - 1000

\* no response has been built
NoResponse ==
    [status |-> 0, error |-> "none", message |-> <<"", "">>,
     risk_score |-> NoScore, risk_level |-> "none", correlation_id |-> NoId]

\* client.validate() has neither returned nor raised
NoResult ==
    [kind |-> "none", risk_score |-> NoScore, risk_level |-> "none",
     message |-> <<"", "">>, details |-> "None"]

\* no request is being handled.  header: the X-Correlation-ID header of the
\* request; bound: the id CorrelationIDMiddleware bound for it;
\* x_correlation_id: the X-Correlation-ID header of the response (None:
\* absent); generated, kind and result observe the uuid4() calls made for the
\* request and what client.validate() gave
IdleRequest ==
    [pc |-> "idle", correlation_id |-> NoId, kind |-> "none",
     response |-> NoResponse, header |-> None, bound |-> None,
     x_correlation_id |-> None, generated |-> 0, result |-> NoResult]

\* the body of a 200 answer has no "riskScore" member
Missing == NoScore - 1

\* the scores and upstream levels the classification is tried on: "riskScore"
\* and "riskLevel" of the body of a 200 answer ("missing": no such member)
Samples ==
    [score : Scores \cup {Missing}, upstream : UpstreamLevels \cup {"missing"},
     fn : {"none"}, level : {"none"}, result : {NoResult},
     response : {NoResponse}]

\* no attempt of the caller is in flight.  probe: the breaker admitted the
\* attempt into HALF_OPEN; last: its outcome; reported_in: the state of the
\* breaker when the outcome was recorded
NoAttempt ==
    [pc |-> "idle", probe |-> FALSE, last |-> "none", reported_in |-> "none"]

\* no validate_applicant call of services/riskshield.py is in progress.
\* attempt: the attempts of _validate_with_retry so far; timer: the seconds
\* left of its backoff sleep; probe, last (the answer to the last attempt)
\* and recorded (the failures the call recorded) are observations
LegacyIdleCall ==
    [pc |-> "idle", probe |-> FALSE, result |-> "none", attempt |-> 0,
     timer |-> 0, last |-> "none", recorded |-> 0]

\* the process has started: RiskShieldClient.__init__, empty caches, no
\* request being handled
Started ==
    /\ cb = CircuitBreaker
    /\ api_key = "None"
    /\ call = [c \in Callers |-> IdleCall]
    /\ streak = 0
    /\ opened = 0
    /\ probes = 0
    /\ probeAge = None
    /\ kv = NoCache
    /\ req = [r \in Requests |-> IdleRequest]
    /\ uuids = 0
    /\ timed = [call |-> IdleCall, left |-> None]
    /\ race = [cb |-> CircuitBreaker, call |-> [c \in Callers |-> NoAttempt]]
    /\ legacy = [cb |-> [_failure_count |-> 0, _opened_at |-> None],
                 call |-> [c \in Callers |-> LegacyIdleCall]]

Init ==
    /\ Started
    /\ sample = [score |-> 0, upstream |-> "UNKNOWN", fn |-> "none",
                 level |-> "none", result |-> NoResult,
                 response |-> NoResponse]

---------------------------------------------------------------------------
(* Actions *)

\* attempt number n of caller c ends with the outcome, from breaker b; code is
\* the status code of the response, observed when the call ends with it
Finish(c, cl, n, b, outcome, code, admitted) ==
    LET b2 == breaker_after(b, outcome)
        a == after_attempt([cl EXCEPT !.recorded =
                                 IF failed(b, b2) THEN @ + 1 ELSE @],
                           n, outcome, code)
    IN
    /\ failed(b, b2) => b.failure_count < MaxFailures
    /\ cb' = b2
    /\ call' = [call EXCEPT ![c] =
                  Track(c, [a EXCEPT !.code = IF a.pc = "done" THEN code
                                              ELSE 0])]
    /\ ObserveBreaker(cb, b2, outcome, admitted)
    /\ UNCHANGED <<credVars, routeVars, scoreVars, timedVars, legacyVars, raceVars>>

\* the POST of attempt n is sent; the coroutine awaits the response
\* (admitted: the step also ran the breaker check of the attempt)
Post(c, cl, n, b, admitted) ==
    /\ cb' = b
    /\ call' = [call EXCEPT ![c] =
                  Track(c, [cl EXCEPT !.pc = "http", !.attempt = n,
                                      !.http = @ + 1])]
    /\ ObserveBreaker(cb, b, "none", admitted)
    /\ UNCHANGED <<credVars, routeVars, scoreVars, timedVars, legacyVars, raceVars>>

\* validate() lines 250-282 of attempt n, up to its first await that suspends:
\* the breaker check, then the cached key and the POST, or the Key Vault lookup
Enter(c, n) ==
    LET r == can_execute(cb)
        cl == [call[c] EXCEPT
                 !.first = IF n > 1 THEN @
                           ELSE IF r.ok THEN "admitted" ELSE cb.state]
    IN
    IF ~r.ok
    THEN /\ Finish(c, cl, n, r.cb, "rejected", 0, FALSE)
         /\ UNCHANGED api_key
    ELSE IF api_key # "None"
    THEN /\ Post(c, cl, n, r.cb, TRUE)
         /\ UNCHANGED api_key
    ELSE /\ cb' = r.cb
         /\ call' = [call EXCEPT ![c] =
                       Track(c, [cl EXCEPT !.pc = "key", !.attempt = n])]
         /\ ObserveBreaker(cb, r.cb, "none", TRUE)
         /\ UNCHANGED <<api_key, credVars, routeVars, scoreVars, timedVars, legacyVars, raceVars>>

\* a request task calls client.validate(...)
Validate(c) ==
    /\ call[c].pc = "idle"
    /\ Enter(c, 1)

\* a retry that sends its POST without the breaker check
Retry_unchecked(c) ==
    /\ call[c].pc = "sleep"
    /\ call[c].timer = 0
    /\ Post(c, call[c], call[c].attempt + 1, cb, FALSE)
    /\ UNCHANGED api_key

\* the backoff sleep is over: tenacity runs the next attempt
Retry(c) ==
    /\ call[c].pc = "sleep"
    /\ call[c].timer = 0
    /\ Enter(c, call[c].attempt + 1)

\* _get_api_key: Key Vault answers with the secret, or the lookup fails
KeyVault(c, found) ==
    /\ call[c].pc = "key"
    /\ IF found
       THEN /\ api_key' = "key"
            /\ Post(c, call[c], call[c].attempt, cb, FALSE)
       ELSE /\ Finish(c, call[c], call[c].attempt, cb, "no_key", 0, FALSE)
            /\ UNCHANGED api_key

\* a client that keeps its cached key when the upstream answers 401
Respond_keeping_key(c, outcome) ==
    /\ call[c].pc = "http"
    /\ api_key' = api_key
    /\ \E code \in StatusCodes(outcome) :
          Finish(c, call[c], call[c].attempt, cb, outcome, code, FALSE)

\* the response (or transport error) of the POST arrives: lines 285-339
Respond(c, outcome) ==
    /\ call[c].pc = "http"
    /\ api_key' = IF outcome = "401" THEN "None" ELSE api_key
    /\ \E code \in StatusCodes(outcome) :
          Finish(c, call[c], call[c].attempt, cb, outcome, code, FALSE)

\* validate() has returned or raised to the route handler
Return(c) ==
    /\ call[c].pc = "done"
    /\ call' = [call EXCEPT ![c] = IdleCall]
    /\ UNCHANGED <<cb, api_key, streak, opened, probes, probeAge>>
    /\ UNCHANGED <<credVars, routeVars, scoreVars, timedVars, legacyVars, raceVars>>

Saturate(t) == IF t = None THEN None ELSE Min(t + 1, recovery_timeout)

\* One second passes.  The age of the last failure is read only in the OPEN
\* branch of can_execute (line 126) and every step into OPEN has just reset
\* it (lines 149-155, see FreshWhenOpened), so it is advanced only while the
\* breaker is not CLOSED.
Tick ==
    /\ cb' = [cb EXCEPT !.elapsed = IF cb.state = "CLOSED" THEN @
                                    ELSE Saturate(@)]
    /\ probeAge' = Saturate(probeAge)
    /\ call' = [c \in Callers |->
                  [call[c] EXCEPT !.timer = Max(@ - 1, 0)]]
    /\ UNCHANGED <<api_key, streak, opened, probes>>
    /\ UNCHANGED <<credVars, routeVars, scoreVars, timedVars, legacyVars, raceVars>>

Next ==
    \/ \E c \in Callers : Validate(c)
    \/ \E c \in Callers : Retry(c)
    \/ \E c \in Callers, found \in BOOLEAN : KeyVault(c, found)
    \/ \E c \in Callers, outcome \in Outcomes : Respond(c, outcome)
    \/ \E c \in Callers : Return(c)
    \/ Tick

Spec == Init /\ [][Next]_vars

---------------------------------------------------------------------------
(* The Key Vault credential: RiskShieldClient._get_api_key (Key Vault     *)
(* configuration: no key in the settings) and secrets.get_key_vault_secret. *)
(* kv.age is the time since _api_key was fetched and kv.expires_in is      *)
(* expiry - time.monotonic() of the secrets._cache entry, both in seconds, *)
(* kept up to _CACHE_TTL.  kv.last observes the latest credential request: *)
(* whether it contacted Key Vault, and whether it was due to (nothing      *)
(* cached, or _CACHE_TTL elapsed since the cached value was fetched).      *)

Requested(fn, contacted, due) ==
    [fn |-> fn, contacted |-> contacted, due |-> due]

\* RiskShieldClient._get_api_key, lines 184-210: found is Key Vault's answer
GetApiKey(found) ==
    /\ IF api_key # "None"
       THEN /\ kv' = [kv EXCEPT !.last =
                         Requested("_get_api_key", FALSE, kv.age >= _CACHE_TTL)]
            /\ UNCHANGED api_key
       ELSE IF found
       THEN /\ api_key' = "key"
            /\ kv' = [kv EXCEPT !.age = 0,
                                !.last = Requested("_get_api_key", TRUE, TRUE)]
       ELSE /\ kv' = [kv EXCEPT !.last = Requested("_get_api_key", TRUE, TRUE)]
            /\ UNCHANGED api_key
    /\ UNCHANGED <<cb, call, streak, opened, probes, probeAge>>
    /\ UNCHANGED <<routeVars, scoreVars, timedVars, legacyVars, raceVars>>

\* secrets.get_key_vault_secret, lines 43-71: found is Key Vault's answer
GetKeyVaultSecret(found) ==
    /\ IF kv.expires_in # None /\ 0 < kv.expires_in
       THEN kv' = [kv EXCEPT !.last =
                      Requested("get_key_vault_secret", FALSE, FALSE)]
       ELSE IF found
       THEN kv' = [kv EXCEPT !.expires_in = _CACHE_TTL,
                             !.last = Requested("get_key_vault_secret", TRUE, TRUE)]
       ELSE kv' = [kv EXCEPT !.last =
                      Requested("get_key_vault_secret", TRUE, TRUE)]
    /\ UNCHANGED <<cb, api_key, call, streak, opened, probes, probeAge>>
    /\ UNCHANGED <<routeVars, scoreVars, timedVars, legacyVars, raceVars>>

\* the upstream answers 401 to a request made with the cached key: line 302
Unauthorized ==
    /\ api_key # "None"
    /\ api_key' = "None"
    /\ kv' = [kv EXCEPT !.age = None,
                        !.last = Requested("none", FALSE, FALSE)]
    /\ UNCHANGED <<cb, call, streak, opened, probes, probeAge>>
    /\ UNCHANGED <<routeVars, scoreVars, timedVars, legacyVars, raceVars>>

\* one second passes
CredTick ==
    /\ kv' = [kv EXCEPT
                !.age = IF @ = None THEN None ELSE Min(@ + 1, _CACHE_TTL),
                !.expires_in = IF @ = None THEN None ELSE Max(@ - 1, 0),
                !.last = Requested("none", FALSE, FALSE)]
    /\ UNCHANGED <<cb, api_key, call, streak, opened, probes, probeAge>>
    /\ UNCHANGED <<routeVars, scoreVars, timedVars, legacyVars, raceVars>>

CredNext ==
    \/ \E found \in BOOLEAN : GetApiKey(found)
    \/ \E found \in BOOLEAN : GetKeyVaultSecret(found)
    \/ Unauthorized
    \/ CredTick

CredSpec == Init /\ [][CredNext]_vars

---------------------------------------------------------------------------
(* models/schemas.py and the responses of api/v1/routes.py *)

RiskLevel == {"LOW", "MEDIUM", "HIGH", "CRITICAL"}

\* a classification whose thresholds belong to the lower level
from_score_inclusive(score) ==
    IF score <= 30 THEN "LOW"
    ELSE IF score <= 60 THEN "MEDIUM"
    ELSE IF score <= 80 THEN "HIGH"
    ELSE "CRITICAL"

\* RiskLevel.from_score
from_score(score) ==
    IF score < 30 THEN "LOW"
    ELSE IF score < 60 THEN "MEDIUM"
    ELSE IF score < 80 THEN "HIGH"
    ELSE "CRITICAL"

\* RiskShieldClient._classify_risk_level of services/riskshield.py
_classify_risk_level(risk_score) ==
    IF risk_score <= 25 THEN "LOW"
    ELSE IF risk_score <= 50 THEN "MEDIUM"
    ELSE IF risk_score <= 75 THEN "HIGH"
    ELSE "CRITICAL"

ErrorCode ==
    {"VALIDATION_ERROR", "AUTHENTICATION_ERROR", "RATE_LIMIT_ERROR",
     "UPSTREAM_ERROR", "INTERNAL_ERROR", "TIMEOUT_ERROR"}

\* the uuid that default_factory=uuid4 supplies: a new one, no request's id
DefaultId == None - 1

\* an error payload built without its correlation_id argument
ErrorResponse_default_id(error, message, correlation_id) ==
    [error |-> error, message |-> message, correlation_id |-> DefaultId]

\* ErrorResponse(error=..., message=..., correlation_id=...).  A message is
\* a pair: the text the code writes, and the text it formats into it
ErrorResponse(error, message, correlation_id) ==
    [error |-> error, message |-> message, correlation_id |-> correlation_id]

\* the response that carries the payload detail with the status code
\* (HTTPException(status_code, detail), JSONResponse(status_code, content))
HTTPException(status, detail) ==
    [status |-> status, error |-> detail.error, message |-> detail.message,
     risk_score |-> NoScore, risk_level |-> "none",
     correlation_id |-> detail.correlation_id]

\* a ValidationResponse without the constraints ge=0, le=100 of risk_score
ValidationResponse_unconstrained(risk_score, risk_level, correlation_id) ==
    [status |-> 200, error |-> "none", message |-> <<"", "">>,
     risk_score |-> risk_score, risk_level |-> from_score(risk_score),
     correlation_id |-> correlation_id]

\* ValidationResponse(risk_score, risk_level, correlation_id): the field
\* constraints (status 0: pydantic raises ValidationError), then the model
\* validator validate_risk_level_matches_score
ValidationResponse(risk_score, risk_level, correlation_id) ==
    IF risk_score < 0 \/ risk_score > 100 \/ risk_level \notin RiskLevel
    THEN NoResponse
    ELSE [status |-> 200, error |-> "none", message |-> <<"", "">>,
          risk_score |-> risk_score,
          risk_level |-> IF risk_level # from_score(risk_score)
                         THEN from_score(risk_score)
                         ELSE risk_level,
          correlation_id |-> correlation_id]

\* what client.validate() returns or raises to the route handler
ErrorKinds ==
    {"AuthError", "RateLimitError", "TimeoutError", "ServerError", "Error",
     "Exception"}

\* str(e) of the exception of each class raised with its default message
\* (lines 41-75); the messages of RiskShieldError are given where it is raised
str(kind) ==
    CASE kind = "TimeoutError" -> <<"Request timed out", "">>
      [] kind = "RateLimitError" -> <<"Rate limit exceeded", "">>
      [] kind = "AuthError" -> <<"Authentication failed", "">>
      [] kind = "ServerError" -> <<"Server error", "">>
      [] OTHER -> <<"", "">>

\* a RiskShieldResult (kind "ok"), or the exception of the kind with its
\* default message and no details
Result(kind, risk_score, risk_level) ==
    [kind |-> kind, risk_score |-> risk_score, risk_level |-> risk_level,
     message |-> str(kind), details |-> "None"]

\* RiskShieldError(message, status_code=..., details=...) of lines 320-326
\* and 333-339
RiskShieldError(message, details) ==
    [Result("Error", NoScore, "none") EXCEPT !.message = message,
                                            !.details = details]

\* validate(), lines 287-292: the result built from the body of a 200 answer
RiskShieldResult(data) ==
    Result("ok",
           IF data.riskScore = Missing THEN 0 ELSE data.riskScore,
           IF data.riskLevel = "missing" THEN "UNKNOWN" ELSE data.riskLevel)

\* a route handler that passes the upstream level on to the response
validate_applicant_upstream_level(result, correlation_id) ==
    LET response == ValidationResponse(result.risk_score, result.risk_level,
                                       correlation_id)
    IN IF response.status = 200 THEN response
       ELSE HTTPException(500,
                ErrorResponse("INTERNAL_ERROR",
                              <<"An unexpected error occurred", "">>,
                              correlation_id))

\* validate_applicant, lines 87-166: the response to the request whose
\* correlation id is given, from the result of client.validate()
validate_applicant(result, correlation_id) ==
    CASE result.kind = "ok" ->
            LET response ==
                  ValidationResponse(result.risk_score,
                                     from_score(result.risk_score),
                                     correlation_id)
            IN IF response.status = 200 THEN response
               ELSE HTTPException(500,
                        ErrorResponse("INTERNAL_ERROR",
                                      <<"An unexpected error occurred", "">>,
                                      correlation_id))
      [] result.kind = "AuthError" ->
            HTTPException(401,
                ErrorResponse("AUTHENTICATION_ERROR",
                    <<"Failed to authenticate with risk validation service",
                      "">>,
                    correlation_id))
      [] result.kind = "RateLimitError" ->
            HTTPException(429,
                ErrorResponse("RATE_LIMIT_ERROR",
                    <<"Rate limit exceeded. Please try again later.", "">>,
                    correlation_id))
      [] result.kind = "TimeoutError" ->
            HTTPException(504,
                ErrorResponse("TIMEOUT_ERROR",
                    <<"Risk validation service timed out", "">>,
                    correlation_id))
      [] result.kind = "ServerError" ->
            HTTPException(503,
                ErrorResponse("UPSTREAM_ERROR",
                    <<"Risk validation service is temporarily unavailable",
                      "">>,
                    correlation_id))
      [] result.kind = "Error" ->
            HTTPException(502,
                ErrorResponse("UPSTREAM_ERROR", result.message,
                              correlation_id))
      [] OTHER ->
            HTTPException(500,
                ErrorResponse("INTERNAL_ERROR",
                              <<"An unexpected error occurred", "">>,
                              correlation_id))

---------------------------------------------------------------------------
(* The classification and the success response, on every sample *)

ScoreInit ==
    /\ Started
    /\ sample \in Samples

\* RiskLevel.from_score(score)
Classify ==
    /\ sample.fn = "none"
    /\ sample.score # Missing
    /\ sample' = [sample EXCEPT !.fn = "from_score",
                                !.level = from_score(sample.score)]
    /\ UNCHANGED <<cb, api_key, call, streak, opened, probes, probeAge>>
    /\ UNCHANGED <<credVars, routeVars, timedVars, legacyVars, raceVars>>

\* the upstream answered 200 with the score and the level of the sample:
\* the response validate_applicant builds from the client's result
Build ==
    /\ sample.fn = "none"
    /\ LET result == RiskShieldResult([riskScore |-> sample.score,
                                        riskLevel |-> sample.upstream])
       IN sample' = [sample EXCEPT
                        !.fn = "validate_applicant",
                        !.result = result,
                        !.response = validate_applicant(result, 1)]
    /\ UNCHANGED <<cb, api_key, call, streak, opened, probes, probeAge>>
    /\ UNCHANGED <<credVars, routeVars, timedVars, legacyVars, raceVars>>

\* self._classify_risk_level(risk_score) of services/riskshield.py
ClassifyLegacy ==
    /\ sample.fn = "none"
    /\ sample.score # Missing
    /\ sample' = [sample EXCEPT
                     !.fn = "_classify_risk_level",
                     !.level = _classify_risk_level(sample.score)]
    /\ UNCHANGED <<cb, api_key, call, streak, opened, probes, probeAge>>
    /\ UNCHANGED <<credVars, routeVars, timedVars, legacyVars, raceVars>>

ScoreNext ==
    \/ Classify
    \/ Build
    \/ ClassifyLegacy

ScoreSpec == ScoreInit /\ [][ScoreNext]_vars

---------------------------------------------------------------------------
(* The route handler POST /api/v1/validate and the exception handlers *)

\* a uuid4 that returns the value it returned before
uuid4_repeating == Max(uuids, 1)

\* uuid.uuid4(): a value that was never generated before
uuid4 == uuids + 1

\* an application that also installs CorrelationIDMiddleware
user_middleware_with_correlation_id ==
    {"CORSMiddleware", "CorrelationIDMiddleware"}

\* create_app: the middleware the application installs (app.add_middleware)
user_middleware == {"CORSMiddleware"}

\* CorrelationIDMiddleware.dispatch is part of the application
tracing == "CorrelationIDMiddleware" \in user_middleware

\* a value of the X-Correlation-ID request header that the client made up
ClientId == None - 2

\* the X-Correlation-ID header of an inbound request: absent, made up, or
\* an id the application generated before
Headers == {None, ClientId} \cup (1..uuids)

\* CorrelationIDMiddleware.dispatch, lines 44-47: the id it binds, given the
\* request header and the uuid4 it generated (the default argument of get)
dispatch(header, generated) ==
    IF header # None THEN header ELSE generated

\* the request r with header h arrives.  With CorrelationIDMiddleware
\* installed dispatch generates a uuid4 and binds an id before the route or
\* an exception handler generates its own; ids counts the uuid4() calls
Arrive(r, h, pc, kind, response, ids) ==
    /\ req[r].pc = "idle"
    /\ uuids + ids <= MaxUuids
    /\ uuids' = uuid4 + (ids - 1)
    /\ req' = [req EXCEPT ![r] =
                 [IdleRequest EXCEPT
                    !.pc = pc, !.kind = kind, !.header = h,
                    !.generated = ids,
                    !.correlation_id = uuid4 + (ids - 1),
                    !.bound = IF tracing THEN dispatch(h, uuid4) ELSE None,
                    !.x_correlation_id =
                        IF tracing /\ kind = "RequestValidationError"
                        THEN dispatch(h, uuid4) ELSE None,
                    !.response = response]]
    /\ UNCHANGED <<cb, api_key, call, streak, opened, probes, probeAge>>
    /\ UNCHANGED <<credVars, scoreVars, timedVars, legacyVars, raceVars>>

\* the number of uuid4() calls made when a request arrives
uuid4_calls == IF tracing THEN 2 ELSE 1

\* the bodies of the upstream's error answers (response.json())
Bodies == {"{\"error\": \"unknown applicant\"}", "{\"error\": \"bad id\"}"}

\* str(e) of the httpx.RequestError of a failed request
TransportTexts == {"All connection attempts failed", "Server disconnected"}

\* the results client.validate() is taken to give
Results ==
    {Result("ok", s, l) : s \in RouteScores, l \in UpstreamLevels}
        \cup {Result(k, NoScore, "none") : k \in ErrorKinds \ {"Error"}}
        \cup {RiskShieldError(<<"API error: ", code>>, body) :
                  code \in {"400", "404"}, body \in Bodies \cup {"None"}}
        \cup {RiskShieldError(<<"Request failed: ", text>>, "None") :
                  text \in TransportTexts}

\* validate_applicant, lines 70-85: the request body is valid, the handler
\* generates the correlation id and awaits client.validate()
Handle(r) ==
    \E h \in Headers :
        Arrive(r, h, "awaiting", "none", NoResponse, uuid4_calls)

\* validation_exception_handler: the request body is not valid
Invalid(r) ==
    \E h \in Headers :
        Arrive(r, h, "responded", "RequestValidationError",
               HTTPException(400,
                   ErrorResponse("VALIDATION_ERROR",
                                 <<"Request validation failed", "">>,
                                 uuid4 + (uuid4_calls - 1))),
               uuid4_calls)

\* generic_exception_handler: an exception raised outside the route handler
\* (the handler itself catches every Exception raised after line 79)
Unhandled(r) ==
    \E h \in Headers :
        Arrive(r, h, "responded", "unhandled",
               HTTPException(500,
                   ErrorResponse("INTERNAL_ERROR",
                                 <<"An unexpected error occurred", "">>,
                                 uuid4 + (uuid4_calls - 1))),
               uuid4_calls)

\* client.validate() returns or raises: lines 87-166 build the response
ClientReturns(r, result) ==
    /\ req[r].pc = "awaiting"
    /\ req' = [req EXCEPT ![r] =
                 [req[r] EXCEPT
                    !.pc = "responded", !.kind = result.kind,
                    !.result = result,
                    !.x_correlation_id = req[r].bound,
                    !.response =
                        validate_applicant(result, req[r].correlation_id)]]
    /\ UNCHANGED <<cb, api_key, call, streak, opened, probes, probeAge>>
    /\ UNCHANGED <<uuids, credVars, scoreVars, timedVars, legacyVars, raceVars>>

\* the response has been sent
Send(r) ==
    /\ req[r].pc = "responded"
    /\ req' = [req EXCEPT ![r] = IdleRequest]
    /\ UNCHANGED <<cb, api_key, call, streak, opened, probes, probeAge>>
    /\ UNCHANGED <<uuids, credVars, scoreVars, timedVars, legacyVars, raceVars>>

RouteNext ==
    \/ \E r \in Requests : Handle(r)
    \/ \E r \in Requests : Invalid(r)
    \/ \E r \in Requests : Unhandled(r)
    \/ \E r \in Requests, result \in Results : ClientReturns(r, result)
    \/ \E r \in Requests : Send(r)

RouteSpec == Init /\ [][RouteNext]_vars

---------------------------------------------------------------------------
(* One validate() call whose caller has a deadline.  validate() takes the  *)
(* applicant's names and id number only (lines 227-232) and the route      *)
(* awaits it bare (routes.py lines 79-85); the one time limit is the       *)
(* timeout of the HTTP client (_get_client, lines 212-219).  The breaker   *)
(* is CLOSED and the key is cached: a single call records at most          *)
(* max_attempts failures, fewer than failure_threshold.                    *)

\* the deadlines a caller may have, in seconds from the call
Deadlines == 1..MaxDeadline

\* the caller, who wants an answer within d seconds, calls validate(): the
\* POST of attempt 1 is sent with the client's timeout
TimedValidate(d) ==
    /\ timed.call.pc = "idle"
    /\ timed' = [call |-> [IdleCall EXCEPT !.pc = "http", !.attempt = 1,
                                          !.timer = riskshield_api_timeout],
                 left |-> d]
    /\ UNCHANGED <<cb, api_key, call, streak, opened, probes, probeAge>>
    /\ UNCHANGED <<credVars, routeVars, scoreVars, legacyVars, raceVars>>

\* the response (or transport error) of the POST arrives; httpx raises
\* TimeoutException when the client's timeout has run out
TimedRespond(outcome) ==
    /\ timed.call.pc = "http"
    /\ (outcome = "timeout") <=> (timed.call.timer = 0)
    /\ \E code \in StatusCodes(outcome) :
          timed' = [timed EXCEPT !.call =
                      after_attempt(@, @.attempt, outcome, code)]
    /\ UNCHANGED <<cb, api_key, call, streak, opened, probes, probeAge>>
    /\ UNCHANGED <<credVars, routeVars, scoreVars, legacyVars, raceVars>>

\* the backoff sleep is over: tenacity sends the next attempt
TimedRetry ==
    /\ timed.call.pc = "sleep"
    /\ timed.call.timer = 0
    /\ timed' = [timed EXCEPT !.call.pc = "http",
                              !.call.attempt = @ + 1,
                              !.call.timer = riskshield_api_timeout]
    /\ UNCHANGED <<cb, api_key, call, streak, opened, probes, probeAge>>
    /\ UNCHANGED <<credVars, routeVars, scoreVars, legacyVars, raceVars>>

\* one second passes while the call awaits a response or sleeps
TimedTick ==
    /\ timed.call.pc \in {"http", "sleep"}
    /\ timed.call.timer > 0
    /\ timed' = [timed EXCEPT !.call.timer = @ - 1,
                              !.left = Max(@ - 1, 0)]
    /\ UNCHANGED <<cb, api_key, call, streak, opened, probes, probeAge>>
    /\ UNCHANGED <<credVars, routeVars, scoreVars, legacyVars, raceVars>>

\* validate() has returned or raised to its caller
TimedReturn ==
    /\ timed.call.pc = "done"
    /\ timed' = [call |-> IdleCall, left |-> None]
    /\ UNCHANGED <<cb, api_key, call, streak, opened, probes, probeAge>>
    /\ UNCHANGED <<credVars, routeVars, scoreVars, legacyVars, raceVars>>

TimedNext ==
    \/ \E d \in Deadlines : TimedValidate(d)
    \/ \E outcome \in Outcomes : TimedRespond(outcome)
    \/ TimedRetry
    \/ TimedTick
    \/ TimedReturn

TimedSpec == Init /\ [][TimedNext]_vars

---------------------------------------------------------------------------
(* services/riskshield.py: the CircuitBreaker of the client that the tests *)
(* use, and RiskShieldClient.validate_applicant with an API key.  The      *)
(* breaker's _opened_at is kept as the seconds since it was set            *)
(* (time.monotonic() - _opened_at), None while it is not set, and counted  *)
(* up to _CIRCUIT_RECOVERY_TIMEOUT, beyond which is_open does not          *)
(* distinguish it.                                                         *)

\* CircuitBreaker.is_open
is_open(b) ==
    IF b._opened_at = None THEN FALSE
    ELSE IF b._opened_at >= _CIRCUIT_RECOVERY_TIMEOUT THEN FALSE
    ELSE TRUE

\* CircuitBreaker.record_success of services/riskshield.py
riskshield_record_success(b) ==
    [b EXCEPT !._failure_count = 0, !._opened_at = None]

\* CircuitBreaker.record_failure of services/riskshield.py
riskshield_record_failure(b) ==
    LET n == b._failure_count + 1 IN
    [b EXCEPT !._failure_count = n,
              !._opened_at = IF n >= _CIRCUIT_FAILURE_THRESHOLD /\ @ = None
                             THEN 0 ELSE @]

\* how _validate_with_retry ends: with a result, with RiskShieldTimeoutError
\* (httpx.TimeoutException, not retried), with the httpx.HTTPStatusError of
\* the last of three attempts, or with another exception of the POST
RetryOutcomes ==
    {"ok", "RiskShieldTimeoutError", "HTTPStatusError", "RequestError"}

\* what the upstream (or the transport) answers to one POST of
\* _validate_with_retry
LegacyAnswers == {"200", "5xx", "429", "4xx", "timeout", "request_error"}

\* _validate_with_retry, lines 231-251: how one attempt ends.  Status 5xx and
\* 429 raise httpx.HTTPStatusError explicitly (lines 238-243) and every other
\* status from 400 on raises it in response.raise_for_status() (line 245)
attempt_raises(answer) ==
    CASE answer = "200" -> "ok"
      [] answer \in {"5xx", "429", "4xx"} -> "HTTPStatusError"
      [] answer = "timeout" -> "RiskShieldTimeoutError"
      [] answer = "request_error" -> "RequestError"

\* retry=retry_if_exception_type(httpx.HTTPStatusError), line 203
riskshield_retry_if_exception_type(kind) == kind = "HTTPStatusError"

\* validate_applicant, lines 181-190: the breaker after _validate_with_retry
\* ended with the outcome (exceptions it does not catch record nothing)
riskshield_breaker_after(b, outcome) ==
    CASE outcome = "ok" -> riskshield_record_success(b)
      [] outcome = "RiskShieldTimeoutError" -> riskshield_record_failure(b)
      [] OTHER -> b

\* what validate_applicant gives its caller for the outcome
riskshield_raised(outcome) ==
    CASE outcome = "RiskShieldTimeoutError" -> "RiskShieldUnavailableError"
      [] OTHER -> outcome

\* validate_applicant, lines 173-181: the breaker check; the call is
\* rejected, or _validate_with_retry is awaited and sends the POST of its
\* first attempt (probe: the call was admitted while _opened_at was set, that
\* is after the recovery timeout)
LegacyValidate(c) ==
    /\ legacy.call[c].pc = "idle"
    /\ legacy' = [legacy EXCEPT !.call[c] =
                     IF is_open(legacy.cb)
                     THEN [LegacyIdleCall EXCEPT
                             !.pc = "done",
                             !.result = "RiskShieldCircuitOpenError"]
                     ELSE [LegacyIdleCall EXCEPT
                             !.pc = "http", !.attempt = 1,
                             !.probe = legacy.cb._opened_at # None]]
    /\ UNCHANGED <<cb, api_key, call, streak, opened, probes, probeAge>>
    /\ UNCHANGED <<credVars, routeVars, scoreVars, timedVars, raceVars>>

\* _validate_with_retry ended with the outcome: validate_applicant records
\* it and returns or raises
LegacyFinish(c, cl, outcome) ==
    LET b2 == riskshield_breaker_after(legacy.cb, outcome)
        counted == b2._failure_count > legacy.cb._failure_count
    IN
    /\ counted => legacy.cb._failure_count < MaxFailures
    /\ legacy' = [legacy EXCEPT
                    !.cb = b2,
                    !.call[c] =
                        [cl EXCEPT !.pc = "done",
                                   !.result = riskshield_raised(outcome),
                                   !.recorded = IF counted THEN @ + 1 ELSE @]]

\* the answer to the POST of an attempt arrives: tenacity (stop_after_attempt(3),
\* wait_exponential(multiplier=1, min=1, max=10), reraise=True, lines
\* 200-206, the values of the other client) sleeps before the next attempt,
\* or _validate_with_retry ends
LegacyRespond(c, answer) ==
    LET kind == attempt_raises(answer)
        cl == [legacy.call[c] EXCEPT !.last = answer]
    IN
    /\ legacy.call[c].pc = "http"
    /\ IF riskshield_retry_if_exception_type(kind)
          /\ ~stop_after_attempt(cl.attempt)
       THEN legacy' = [legacy EXCEPT !.call[c] =
                          [cl EXCEPT !.pc = "sleep",
                                     !.timer = wait_exponential(cl.attempt)]]
       ELSE LegacyFinish(c, cl, kind)
    /\ UNCHANGED <<cb, api_key, call, streak, opened, probes, probeAge>>
    /\ UNCHANGED <<credVars, routeVars, scoreVars, timedVars, raceVars>>

\* the backoff sleep is over: tenacity sends the next attempt
LegacyRetry(c) ==
    /\ legacy.call[c].pc = "sleep"
    /\ legacy.call[c].timer = 0
    /\ legacy' = [legacy EXCEPT !.call[c].pc = "http",
                                !.call[c].attempt = @ + 1]
    /\ UNCHANGED <<cb, api_key, call, streak, opened, probes, probeAge>>
    /\ UNCHANGED <<credVars, routeVars, scoreVars, timedVars, raceVars>>

\* the caller has the result or the exception
LegacyReturn(c) ==
    /\ legacy.call[c].pc = "done"
    /\ legacy' = [legacy EXCEPT !.call[c] = LegacyIdleCall]
    /\ UNCHANGED <<cb, api_key, call, streak, opened, probes, probeAge>>
    /\ UNCHANGED <<credVars, routeVars, scoreVars, timedVars, raceVars>>

\* one second passes
LegacyTick ==
    /\ legacy' = [legacy EXCEPT
                    !.cb._opened_at =
                        IF @ = None THEN None
                        ELSE Min(@ + 1, _CIRCUIT_RECOVERY_TIMEOUT),
                    !.call = [c \in Callers |->
                                [legacy.call[c] EXCEPT
                                    !.timer = Max(@ - 1, 0)]]]
    /\ legacy' # legacy
    /\ UNCHANGED <<cb, api_key, call, streak, opened, probes, probeAge>>
    /\ UNCHANGED <<credVars, routeVars, scoreVars, timedVars, raceVars>>

LegacyNext ==
    \/ \E c \in Callers : LegacyValidate(c)
    \/ \E c \in Callers, answer \in LegacyAnswers : LegacyRespond(c, answer)
    \/ \E c \in Callers : LegacyRetry(c)
    \/ \E c \in Callers : LegacyReturn(c)
    \/ LegacyTick

LegacySpec == Init /\ [][LegacyNext]_vars

---------------------------------------------------------------------------
(* The breaker of riskshield_client.py under attempts that overlap: each   *)
(* attempt is the breaker check of lines 250-256, the POST, and the        *)
(* recording of its outcome (lines 285-339), with the key cached.  Here    *)
(* every attempt in flight keeps how it was admitted.                      *)

\* lines 250-282: the breaker check of an attempt; the attempt is rejected
\* or its POST is sent
RaceEnter(c) ==
    LET r == can_execute(race.cb) IN
    /\ race.call[c].pc = "idle"
    /\ race' = [race EXCEPT
                  !.cb = r.cb,
                  !.call[c] =
                      IF r.ok
                      THEN [NoAttempt EXCEPT
                              !.pc = "http",
                              !.probe = r.cb.state = "HALF_OPEN"]
                      ELSE [NoAttempt EXCEPT !.pc = "done",
                                             !.last = "rejected"]]
    /\ UNCHANGED <<cb, api_key, call, streak, opened, probes, probeAge>>
    /\ UNCHANGED <<credVars, routeVars, scoreVars, timedVars, legacyVars>>

\* lines 285-339: the answer arrives and its outcome is recorded
RaceRespond(c, outcome) ==
    LET b2 == breaker_after(race.cb, outcome) IN
    /\ race.call[c].pc = "http"
    /\ failed(race.cb, b2) => race.cb.failure_count < MaxFailures
    /\ race' = [race EXCEPT
                  !.cb = b2,
                  !.call[c] = [@ EXCEPT !.pc = "done", !.last = outcome,
                                        !.reported_in = race.cb.state]]
    /\ UNCHANGED <<cb, api_key, call, streak, opened, probes, probeAge>>
    /\ UNCHANGED <<credVars, routeVars, scoreVars, timedVars, legacyVars>>

\* the attempt is over
RaceReturn(c) ==
    /\ race.call[c].pc = "done"
    /\ race' = [race EXCEPT !.call[c] = NoAttempt]
    /\ UNCHANGED <<cb, api_key, call, streak, opened, probes, probeAge>>
    /\ UNCHANGED <<credVars, routeVars, scoreVars, timedVars, legacyVars>>

\* one second passes (as in Tick)
RaceTick ==
    /\ race.cb.state # "CLOSED"
    /\ race.cb.elapsed # None /\ race.cb.elapsed < recovery_timeout
    /\ race' = [race EXCEPT !.cb.elapsed = @ + 1]
    /\ UNCHANGED <<cb, api_key, call, streak, opened, probes, probeAge>>
    /\ UNCHANGED <<credVars, routeVars, scoreVars, timedVars, legacyVars>>

RaceNext ==
    \/ \E c \in Callers : RaceEnter(c)
    \/ \E c \in Callers, outcome \in Outcomes : RaceRespond(c, outcome)
    \/ \E c \in Callers : RaceReturn(c)
    \/ RaceTick

RaceSpec == Init /\ [][RaceNext]_vars

---------------------------------------------------------------------------
(* Properties *)

obs == call[Observed]

\* every step that opens the breaker stamps the failure time
FreshWhenOpened ==
    [][(cb.state # "OPEN" /\ cb'.state = "OPEN") => cb'.elapsed = 0]_vars

\* caller c runs the breaker check of an attempt in this step
Checks(c) == Validate(c) \/ Retry(c)
Admitted(c) == Checks(c) /\ can_execute(cb).ok
Rejected(c) == Checks(c) /\ ~can_execute(cb).ok

\* C1: from CLOSED with failure counter 0, failure_threshold consecutive
\* recorded failures leave the breaker OPEN, and a validate() call made while
\* it is OPEN and recovery_timeout has not elapsed sends no HTTP request.
C1_OpenRejectsNextCall ==
    /\ cb.state = "CLOSED" => streak < failure_threshold
    /\ obs.first = "OPEN" => obs.http = 0

\* C2: a validate() call that ends in a failure of its upstream request has
\* increased the failure counter exactly once, however many attempts it made.
C2_OneFailurePerCall ==
    (obs.pc = "done" /\ obs.last \in Outcomes \ {"200", "200bad"})
        => obs.recorded = 1

\* C3: while the breaker is HALF_OPEN at most half_open_max_calls calls have
\* been admitted since it became HALF_OPEN, the call that made the transition
\* included.
C3_AtMostMaxProbes ==
    cb.state = "HALF_OPEN" => probes <= half_open_max_calls

\* C4: a failure recorded while HALF_OPEN moves the breaker to OPEN, and no
\* call is admitted before recovery_timeout has elapsed since that failure.
C4_ProbeFailureRestartsTimer ==
    [][ /\ (cb.state = "HALF_OPEN" /\ failed(cb, cb')) => cb'.state = "OPEN"
        /\ \A c \in Callers :
              Admitted(c) => probeAge \in {None, recovery_timeout} ]_vars

\* a call was rejected after a probe failure, before the timeout had elapsed
C4_Witness ==
    /\ probeAge # None /\ probeAge < recovery_timeout
    /\ obs.pc = "done" /\ obs.first = "OPEN" /\ obs.http = 0

C6_SuccessResetsCounter ==
    cb.state = "CLOSED" => cb.failure_count = streak

\* C7: a validate() call that the breaker does not admit ends at once with the
\* error: no credential lookup, no HTTP request, no retry, no backoff delay.
C7_RejectionFailsFast ==
    obs.first \in {"OPEN", "HALF_OPEN"} =>
        /\ obs.pc = "done"
        /\ obs.attempt = 1
        /\ obs.http = 0
        /\ obs.delays = <<>>

\* C8: a rejection by the breaker leaves its failure counter, state and
\* last-failure time unchanged, and a call that was only ever rejected has
\* recorded no failure.
C8_RejectionNotCounted ==
    [][ /\ \A c \in Callers :
              Rejected(c) => /\ cb'.failure_count = cb.failure_count
                             /\ cb'.state = cb.state
                             /\ cb'.elapsed = cb.elapsed
        /\ (obs'.pc = "done" /\ obs'.last = "rejected" /\ obs'.http = 0)
              => obs'.recorded = 0 ]_vars

\* a call all of whose attempts were rejected by the OPEN breaker
C8_Witness ==
    /\ obs.pc = "done" /\ obs.last = "rejected" /\ obs.first = "OPEN"
    /\ obs.attempt = max_attempts /\ obs.http = 0
    /\ cb.state = "OPEN"

\* C9: one validate() call sends at most max_attempts HTTP requests.
C9_AtMostMaxAttempts == obs.http <= max_attempts

\* a call that sent max_attempts requests
C9_Witness == obs.pc = "done" /\ obs.http = max_attempts

\* the delay the retry policy prescribes before attempt k + 1
PolicyDelay(k) == Min(wait_max, wait_multiplier * Pow2(k - 1))

\* C10: a call whose third attempt succeeds after two retryable failures
\* returns the success after exactly 2 backoff delays, delay k being
\* min(maxDelay, baseDelay * 2^(k-1)): non-decreasing and at most maxDelay.
C10_TwoRetriesThenSuccess ==
    (obs.pc = "done" /\ obs.attempt = 3 /\ obs.last = "200") =>
        /\ obs.result = "ok"
        /\ obs.delays = <<PolicyDelay(1), PolicyDelay(2)>>
        /\ obs.delays[1] <= obs.delays[2]
        /\ obs.delays[2] <= wait_max

\* two 5xx responses, then a 200 on the third attempt
C10_Witness ==
    /\ obs.pc = "done" /\ obs.attempt = 3 /\ obs.last = "200"
    /\ obs.http = 3 /\ obs.recorded = 2 /\ obs.result = "ok"

\* C11: an upstream 401, or a 4xx other than 429, ends the validate() call
\* with its error at once: no further attempt and no backoff delay follow it,
\* and when it answers the first attempt the call made exactly one request.
C11_ClientErrorNotRetried ==
    obs.last \in {"401", "4xx"} =>
        /\ obs.pc = "done"
        /\ obs.result = raised(obs.last)
        /\ Len(obs.delays) = obs.attempt - 1
        /\ obs.attempt = 1 => (obs.http = 1 /\ obs.delays = <<>>)

\* a call whose first request was answered 401
C11_Witness ==
    /\ obs.pc = "done" /\ obs.last = "401" /\ obs.result = "AuthError"
    /\ obs.attempt = 1 /\ obs.http = 1 /\ obs.delays = <<>>

\* C12: an upstream 429 or a transport timeout on an attempt that is not the
\* last one is retried like a 5xx: the call does not end with that attempt.
C12_RateLimitAndTimeoutRetried ==
    (obs.last \in {"429", "timeout"} /\ obs.attempt < max_attempts)
        => obs.pc # "done"

\* C13: a call whose max_attempts attempts all failed retryably ends with the
\* failure of its last attempt: the same error kind, and the status code the
\* upstream returned on that attempt.
C13_ExhaustedRaisesLast ==
    (obs.pc = "done" /\ obs.attempt = max_attempts
                     /\ obs.last \in {"5xx", "rejected"})
        => /\ obs.result = "ServerError"
           /\ obs.last = "5xx" => (obs.code >= 500 /\ obs.status = obs.code)

\* three requests, each answered with a server error, the last one with 500
C13_Witness ==
    /\ obs.pc = "done" /\ obs.attempt = max_attempts /\ obs.last = "5xx"
    /\ obs.http = max_attempts /\ obs.code = 500 /\ obs.status = 500
    /\ obs.result = "ServerError"

\* C14: a 401 answer clears the cached key in the step that raises the
\* authentication error, and a call admitted while no key is cached resolves
\* the key again before it sends its request.
C14_AuthErrorClearsKey ==
    [][ \A c \in Callers :
          /\ Respond(c, "401")
                => (api_key' = "None" /\ call'[c].pc \in {"done", "idle"})
          /\ (Admitted(c) /\ api_key = "None") => call'[c].pc = "key" ]_vars

\* the observed call was answered 401 with a cached key, which is now cleared
C14_Witness ==
    /\ obs.pc = "done" /\ obs.last = "401" /\ obs.result = "AuthError"
    /\ api_key = "None"

\* C15: a credential fetched from Key Vault is cached for _CACHE_TTL seconds:
\* a credential request made before the TTL has elapsed is answered from the
\* cache without contacting Key Vault, and one made after it fetches again.
C15_CredentialCachedForTtl ==
    kv.last.fn # "none" => (kv.last.contacted <=> kv.last.due)

\* the score bands of the classification
classify(s) ==
    CASE s \in 0..29 -> "LOW"
      [] s \in 30..59 -> "MEDIUM"
      [] s \in 60..79 -> "HIGH"
      [] s \in 80..100 -> "CRITICAL"
      [] OTHER -> "OutOfRangeError"

Rank(level) ==
    CASE level = "LOW" -> 1
      [] level = "MEDIUM" -> 2
      [] level = "HIGH" -> 3
      [] level = "CRITICAL" -> 4
      [] OTHER -> 0

\* C16: for an upstream success with a score in 0..100 and any level, the
\* response carries that score and the level classified from it, never the
\* upstream level where it differs.
C16_LevelDerivedFromScore ==
    (sample.fn = "validate_applicant" /\ sample.score \in 0..100) =>
        /\ sample.response.status = 200
        /\ sample.response.risk_score = sample.score
        /\ sample.response.risk_level = classify(sample.score)

\* score 72 with upstream level LOW gives level HIGH
C16_Witness ==
    /\ sample.fn = "validate_applicant"
    /\ sample.score = 72 /\ sample.upstream = "LOW"
    /\ sample.response.status = 200
    /\ sample.response.risk_score = 72
    /\ sample.response.risk_level = "HIGH"

\* C17: for every score in 0..100 from_score gives LOW below 30, MEDIUM from
\* 30 to 59, HIGH from 60 to 79 and CRITICAL from 80 to 100, so the level
\* never decreases as the score increases.
C17_ScoreBands ==
    /\ (sample.fn = "from_score" /\ sample.score \in 0..100)
          => sample.level = classify(sample.score)
    /\ \A s \in 0..99 : Rank(from_score(s)) <= Rank(from_score(s + 1))

\* the threshold 60 is classified HIGH
C17_Witness ==
    /\ sample.fn = "from_score" /\ sample.score = 60 /\ sample.level = "HIGH"

\* C18: from_score gives no level for a score below 0 or above 100.
C18_OutOfRangeRejected ==
    (sample.fn = "from_score" /\ sample.score \notin 0..100)
        => sample.level \notin RiskLevel

\* the caller-facing category of a response
Category(response) ==
    CASE response.status \in {503, 429} -> "service unavailable"
      [] response.status = 504 -> "gateway timeout"
      [] response.status = 401 -> "authentication failure"
      [] response.status = 500 -> "internal error"
      [] OTHER -> "other"

\* the category the taxonomy gives to each error kind of the client
Taxonomy(kind) ==
    CASE kind \in {"ServerError", "RateLimitError"} -> "service unavailable"
      [] kind = "TimeoutError" -> "gateway timeout"
      [] kind = "AuthError" -> "authentication failure"
      [] kind \in {"Error", "Exception"} -> "internal error"

\* C19: the route handler maps every failure of client.validate() to the one
\* category of its kind: server error (breaker rejection included) and rate
\* limit to service unavailable, timeout to gateway timeout, authentication
\* error to authentication failure, every other error to internal error.
C19_ErrorMappingTotal ==
    \A r \in Requests :
        (req[r].pc = "responded" /\ req[r].kind \in ErrorKinds)
            => Category(req[r].response) = Taxonomy(req[r].kind)

C22_ResponseHeaderEchoesRequest ==
    \A r \in Requests :
        (req[r].pc = "responded") =>
            (/\ req[r].x_correlation_id # None
             /\ (req[r].header # None) =>
                    (req[r].x_correlation_id = req[r].header))

C24_DeadlineAborts ==
    [][(timed.left = 0 /\ timed.call.pc \in {"http", "sleep"}) =>
          (/\ timed'.call.pc = "done"
           /\ timed'.call.result = "TimeoutError"
           /\ timed'.call.attempt = timed.call.attempt)
      ]_vars


\* C25: a 200 answer whose body lacks the score or the level, or has a level
\* that is no risk level, gives no result and no success response: validate()
\* fails, and nothing with a defaulted score or level is returned.
C25_MalformedBodyIsProtocolError ==
    (/\ sample.fn = "validate_applicant"
     /\ (\/ sample.score = Missing
         \/ sample.upstream \notin RiskLevel)) =>
        (/\ sample.result.kind # "ok"
         /\ sample.response.status # 200)

\* C27: a success response has a score in 0..100, and a 200 answer of the
\* upstream whose score is below 0 or above 100 is answered with an error
\* that carries no score.
C27_SuccessScoreInRange ==
    (sample.fn = "validate_applicant") =>
        (/\ (sample.response.status = 200) =>
                (sample.response.risk_score \in 0..100)
         /\ (sample.score # Missing /\ sample.score \notin 0..100) =>
                (/\ sample.response.status = 500
                 /\ sample.response.error = "INTERNAL_ERROR"
                 /\ sample.response.risk_score = NoScore))

\* the upstream answered 200 with score 101 and the caller got the error 500
C27_Witness ==
    /\ sample.fn = "validate_applicant"
    /\ sample.score = 101
    /\ sample.result = Result("ok", 101, "CRITICAL")
    /\ sample.response.status = 500


\* what of a failure of client.validate() is neither the body of the
\* upstream's answer nor the text of the transport error: the class of the
\* exception, where it was raised and, for an API error, the status code
Public(result) ==
    [kind |-> result.kind,
     raised_as |-> result.message[1],
     status_code |-> IF result.message[1] = "Request failed: " THEN ""
                     ELSE result.message[2]]

\* C26: the error payload holds neither the body of the upstream's answer
\* nor the text of a transport error, and two requests whose failures differ
\* only in that body or text are answered with the same status, error code
\* and message.
C26_NoUpstreamTextInPayload ==
    \A r \in Requests :
        (req[r].pc = "responded" /\ req[r].kind \in ErrorKinds) =>
            (/\ req[r].response.message[2] \notin Bodies \cup TransportTexts
             /\ \A q \in Requests :
                   (/\ req[q].pc = "responded"
                    /\ Public(req[q].result) = Public(req[r].result)) =>
                       (/\ req[q].response.status = req[r].response.status
                        /\ req[q].response.error = req[r].response.error
                        /\ req[q].response.message
                              = req[r].response.message))


\* C28: a validate() call that ends in an error leaves no success recorded in
\* the breaker: the step that ends it neither closes a HALF_OPEN breaker nor
\* resets the failure counter.
C28_SuccessOnlyWithResult ==
    [][(obs.pc = "http" /\ obs'.pc = "done" /\ obs'.result # "ok") =>
          (/\ ~(cb.state = "HALF_OPEN" /\ cb'.state = "CLOSED")
           /\ cb'.failure_count >= cb.failure_count)
      ]_vars


\* C29: in the breaker of services/riskshield.py a failure recorded once the
\* recovery timeout has elapsed trips the breaker again: is_open is true
\* after it and the recovery timer starts anew.
C29_ProbeFailureRetrips ==
    [][(/\ legacy.cb._opened_at # None
        /\ ~is_open(legacy.cb)
        /\ legacy'.cb._failure_count = legacy.cb._failure_count + 1) =>
          (/\ is_open(legacy'.cb)
           /\ legacy'.cb._opened_at = 0)
      ]_vars

\* C30: in the breaker of services/riskshield.py at most one call admitted
\* after the recovery timeout is in flight: until its success or failure is
\* recorded every other call is rejected.
C30_OneProbeAdmitted ==
    Cardinality({c \in Callers :
                    legacy.call[c].pc = "http" /\ legacy.call[c].probe}) <= 1


\* C31: in services/riskshield.py a validate_applicant call whose three
\* attempts were all answered 5xx raises RiskShieldUnavailableError and has
\* recorded one failure on the breaker.
C31_ExhaustedRetriesCountAsFailure ==
    \A c \in Callers :
        (/\ legacy.call[c].pc = "done"
         /\ legacy.call[c].attempt = max_attempts
         /\ legacy.call[c].last = "5xx") =>
            (/\ legacy.call[c].result = "RiskShieldUnavailableError"
             /\ legacy.call[c].recorded = 1)

\* C32: in services/riskshield.py an attempt answered with a 4xx status other
\* than 429 ends _validate_with_retry: no backoff and no further attempt
\* follows it.
C32_ClientErrorNotRetriedLegacy ==
    \A c \in Callers :
        (legacy.call[c].last = "4xx") => (legacy.call[c].pc = "done")


\* the step ends an attempt of caller c that the breaker had admitted
AttemptEnds(c) ==
    /\ call[c].pc \in {"key", "http"}
    /\ call'[c].pc \in {"sleep", "done", "idle"}

\* C33: the end of every attempt the breaker admitted records one outcome on
\* the breaker, a failure or a success, so an attempt that ends while the
\* breaker is HALF_OPEN does not leave it HALF_OPEN.
C33_AdmittedAttemptRecordsOutcome ==
    [][\A c \in Callers :
          AttemptEnds(c) =>
              (/\ failed(cb, cb') \/ cb' = record_success(cb)
               /\ (cb.state = "HALF_OPEN") => (cb'.state # "HALF_OPEN"))
      ]_vars


\* the breaker is HALF_OPEN, its probe slots are used up and no attempt is
\* in progress whose outcome could be recorded: can_execute rejects every
\* call and nothing is left that calls record_success or record_failure
Wedged ==
    /\ cb.state = "HALF_OPEN"
    /\ cb.half_open_calls >= half_open_max_calls
    /\ \A c \in Callers : call[c].pc \notin {"key", "http"}

\* C34: a breaker that is not CLOSED can still become CLOSED: it never gets
\* into HALF_OPEN rejecting every call with no probe left to report, a state
\* it would stay in however many calls are made and succeed upstream.
C34_BreakerCanRecover == ~Wedged

\* once there, the breaker stays there whatever the callers and the upstream do
WedgedForGood == [][Wedged => (cb'.state = "HALF_OPEN" /\ Wedged')]_vars


\* the step records the outcome of the attempt of caller c
Reports(c) == race.call[c].pc = "http" /\ race'.call[c].pc = "done"

\* C35 as stated: while the breaker is HALF_OPEN the outcome of an attempt
\* that was not admitted as a HALF_OPEN probe leaves the state HALF_OPEN.
C35_OnlyProbesDecide ==
    [][\A c \in Callers :
          (/\ race.cb.state = "HALF_OPEN"
           /\ Reports(c)
           /\ ~race.call[c].probe) => (race'.cb.state = "HALF_OPEN")
      ]_vars

\* C35, amended: while the breaker is HALF_OPEN its state changes only when
\* the outcome of an attempt is recorded, and every recorded outcome changes
\* it, whether the attempt was admitted as a HALF_OPEN probe or before the
\* breaker opened: a success closes the breaker, a failure re-opens it.
C35_EveryOutcomeDecides ==
    [][(race.cb.state = "HALF_OPEN") =>
          (/\ \A c \in Callers :
                 Reports(c) =>
                     (race'.cb.state =
                         IF race'.call[c].last \in {"200", "200bad"}
                         THEN "CLOSED" ELSE "OPEN")
           /\ (race'.cb.state # "HALF_OPEN") => (\E c \in Callers : Reports(c)))
      ]_vars

\* an attempt admitted before the breaker opened reported its success while
\* the breaker was HALF_OPEN and closed it; the probe is still in flight
C35_Witness ==
    /\ race.cb.state = "CLOSED"
    /\ race.call["t1"].pc = "done"
    /\ ~race.call["t1"].probe
    /\ race.call["t1"].reported_in = "HALF_OPEN"
    /\ race.call["t1"].last = "200"
    /\ race.call["t2"].pc = "http"
    /\ race.call["t2"].probe


\* C36: the time from which recovery_timeout is measured is set when the
\* breaker becomes OPEN and not while it stays OPEN: no step between two OPEN
\* states takes the measured time back.
C36_OpenTimerNotPostponed ==
    [][(cb.state = "OPEN" /\ cb'.state = "OPEN") =>
          (cb'.elapsed >= cb.elapsed)]_vars

\* C37: an attempt starts its credential lookup or sends its POST only in a
\* step whose breaker check admitted it, the first attempt of a call and
\* every retry alike; while the breaker rejects, an attempt that begins sends
\* no request.
C37_NoRequestWithoutAdmission ==
    [][\A c \in Callers :
          /\ (call[c].pc \in {"idle", "sleep"}
                /\ call'[c].pc \in {"key", "http"}) => can_execute(cb).ok
          /\ (call[c].pc \in {"idle", "sleep"} /\ ~can_execute(cb).ok
                /\ c = Observed) => (obs'.http = obs.http)
      ]_vars

\* the first attempt of a call was admitted and sent its POST; its retry was
\* rejected by the breaker, which had opened meanwhile, and sent none
C37_Witness ==
    /\ obs.first = "admitted"
    /\ obs.attempt = 2
    /\ obs.last = "rejected"
    /\ obs.http = 1
    /\ cb.state = "OPEN"

\* C38: while the breaker is CLOSED its failure counter is below
\* failure_threshold.
C38_ClosedBelowThreshold ==
    (cb.state = "CLOSED") => (cb.failure_count < failure_threshold)

\* the breaker opened, recovered, and has counted failure_threshold - 1
\* failures since
C38_Witness ==
    /\ cb.state = "CLOSED"
    /\ cb.elapsed # None
    /\ cb.failure_count = failure_threshold - 1


\* C39: on every score in 0..100 the classifier of services/riskshield.py
\* returns the level RiskLevel.from_score returns.
C39_ClassifiersAgree ==
    (sample.fn = "_classify_risk_level" /\ sample.score \in 0..100) =>
        (sample.level = from_score(sample.score))

=============================================================================
